---- MODULE Spec2Model ----
(***************************************************************************)
(* SimpleTodoList (src/TodoList.py): the Task record, the TodoList core    *)
(* and the TodoApp handlers that drive it from the Tk widgets.             *)
(*                                                                         *)
(* Python lists are 0-based, TLA+ sequences 1-based: position i of the     *)
(* program is element i + 1 of the sequence.  An optional argument is a    *)
(* sequence of length at most one: << >> is None, <<s>> is the string s.   *)
(***************************************************************************)
EXTENDS Integers, Sequences, FiniteSets, TLC

VARIABLES
    tasks,           \* TodoList.tasks
    title_entry,     \* contents of TodoApp.title_entry
    due_date_entry,  \* contents of TodoApp.due_date_entry
    priority_entry,  \* contents of TodoApp.priority_entry
    task_listbox,    \* rows of TodoApp.task_listbox
    curselection,    \* task_listbox.curselection(): a tuple of row indices
    last,            \* history: the latest call of a TodoList method
    event            \* history: the latest handler run or user gesture

vars == <<tasks, title_entry, due_date_entry, priority_entry,
          task_listbox, curselection, last, event>>

appVars == <<title_entry, due_date_entry, priority_entry,
             task_listbox, curselection, event>>

(***************************************************************************)
(* Bounds and input sets                                                   *)
(***************************************************************************)
MaxTasks == 2

None == << >>

Some(s) == <<s>>

\* (title, due_date, priority) triples handed to add_task
AddInputs ==
    { <<"Buy milk", "2024-01-01", "High">>, <<"A", "X", "Low">> }

\* (title, due_date, priority) arguments handed to edit_task: every argument is
\* absent, empty and a value at least once, alone and together
EditInputs ==
    { <<None, None, None>>,
      <<Some(""), Some("X"), Some("")>>,
      <<Some("A"), Some(""), None>>,
      <<None, Some(""), Some("Low")>>,
      <<Some("A"), Some("X"), Some("Low")>> }

\* indices handed to the TodoList methods: below -n, negative, valid, n and above
Indices == (0 - (MaxTasks + 1)) .. MaxTasks

(***************************************************************************)
(* Task                                                                    *)
(***************************************************************************)
Task(title, due_date, priority) ==
    [title |-> title, due_date |-> due_date, priority |-> priority,
     is_completed |-> FALSE]

Task_str_swapped(task) ==
    LET status == IF task.is_completed THEN "Not Completed" ELSE "Completed"
    IN  task.title \o " - " \o task.due_date \o " - " \o task.priority
            \o " - " \o status

Task_str(task) ==
    LET status == IF task.is_completed THEN "Completed" ELSE "Not Completed"
    IN  task.title \o " - " \o task.due_date \o " - " \o task.priority
            \o " - " \o status

(***************************************************************************)
(* Python semantics used by the methods                                    *)
(***************************************************************************)
\* truth value of an optional string argument: None and "" are falsy
Truthy(arg) == arg # None /\ arg[1] # ""

IndexError_offbyone(ts, i) == i < 0 - Len(ts) \/ i > Len(ts)

\* self.tasks[task_index] raises IndexError
IndexError(ts, i) == i < 0 - Len(ts) \/ i >= Len(ts)

\* the position self.tasks[task_index] addresses (negative indices count from the end)
Position(ts, i) == IF i < 0 THEN i + Len(ts) ELSE i

\* list.pop(i) for a position 0 <= i < len: the list without that element
pop(ts, i) ==
    [j \in 1 .. (Len(ts) - 1) |-> IF j <= i THEN ts[j] ELSE ts[j + 1]]

(***************************************************************************)
(* TodoList                                                                *)
(***************************************************************************)
add_task_front(ts, title, due_date, priority) ==
    <<Task(title, due_date, priority)>> \o ts

add_task(ts, title, due_date, priority) ==
    Append(ts, Task(title, due_date, priority))

remove_task_unchecked(ts, i) ==
    IF 0 - Len(ts) <= i /\ i < Len(ts) THEN pop(ts, Position(ts, i)) ELSE ts

remove_task_next(ts, i) ==
    IF 0 <= i /\ i < Len(ts)
    THEN pop(ts, IF i + 1 < Len(ts) THEN i + 1 ELSE i)
    ELSE ts

remove_task(ts, i) ==
    IF 0 <= i /\ i < Len(ts) THEN pop(ts, i) ELSE ts

edit_task_clearing(ts, i, title, due_date, priority) ==
    [j \in 1 .. Len(ts) |->
        IF j = Position(ts, i) + 1
        THEN [ts[j] EXCEPT
                !.title = IF title # None THEN title[1] ELSE @,
                !.due_date = IF Truthy(due_date) THEN due_date[1] ELSE @,
                !.priority = IF Truthy(priority) THEN priority[1] ELSE @]
        ELSE ts[j]]

\* the body of edit_task once self.tasks[task_index] has not raised
edit_task(ts, i, title, due_date, priority) ==
    [j \in 1 .. Len(ts) |->
        IF j = Position(ts, i) + 1
        THEN [ts[j] EXCEPT
                !.title = IF Truthy(title) THEN title[1] ELSE @,
                !.due_date = IF Truthy(due_date) THEN due_date[1] ELSE @,
                !.priority = IF Truthy(priority) THEN priority[1] ELSE @]
        ELSE ts[j]]

mark_completed_toggle(ts, i) ==
    [j \in 1 .. Len(ts) |->
        IF j = Position(ts, i) + 1
        THEN [ts[j] EXCEPT !.is_completed = ~@]
        ELSE ts[j]]

mark_completed(ts, i) ==
    [j \in 1 .. Len(ts) |->
        IF j = Position(ts, i) + 1
        THEN [ts[j] EXCEPT !.is_completed = TRUE]
        ELSE ts[j]]

mark_incomplete(ts, i) ==
    [j \in 1 .. Len(ts) |->
        IF j = Position(ts, i) + 1
        THEN [ts[j] EXCEPT !.is_completed = FALSE]
        ELSE ts[j]]

\* the lines show_tasks prints
show_tasks(ts) ==
    [j \in 1 .. Len(ts) |-> ToString(j - 1) \o ". " \o Task_str(ts[j])]

(***************************************************************************)
(* History of the latest TodoList call                                     *)
(***************************************************************************)
Call(op, i, title, due_date, priority, pre, raised, out) ==
    [op |-> op, index |-> i, title |-> title, due_date |-> due_date,
     priority |-> priority, pre |-> pre, raised |-> raised, out |-> out]

NoCall == Call("none", 0, None, None, None, << >>, FALSE, << >>)

NoEvent ==
    [name |-> "none", warning |-> "", tasks |-> << >>, listbox |-> << >>,
     entries |-> <<"", "", "">>, selection |-> << >>]

Init ==
    /\ tasks = << >>
    /\ title_entry = ""
    /\ due_date_entry = ""
    /\ priority_entry = ""
    /\ task_listbox = << >>
    /\ curselection = << >>
    /\ last = NoCall
    /\ event = NoEvent

(***************************************************************************)
(* The TodoList methods called directly                                    *)
(***************************************************************************)
TodoList_add_task ==
    /\ Len(tasks) < MaxTasks
    /\ \E in \in AddInputs :
        /\ tasks' = add_task(tasks, in[1], in[2], in[3])
        /\ last' = Call("add_task", 0, Some(in[1]), Some(in[2]), Some(in[3]),
                        tasks, FALSE, << >>)
    /\ UNCHANGED appVars

TodoList_remove_task ==
    /\ \E i \in Indices :
        /\ tasks' = remove_task(tasks, i)
        /\ last' = Call("remove_task", i, None, None, None, tasks, FALSE, << >>)
    /\ UNCHANGED appVars

TodoList_edit_task ==
    /\ \E i \in Indices, in \in EditInputs :
        /\ tasks' = IF IndexError(tasks, i) THEN tasks
                    ELSE edit_task(tasks, i, in[1], in[2], in[3])
        /\ last' = Call("edit_task", i, in[1], in[2], in[3], tasks,
                        IndexError(tasks, i), << >>)
    /\ UNCHANGED appVars

TodoList_mark_completed ==
    /\ \E i \in Indices :
        /\ tasks' = IF IndexError(tasks, i) THEN tasks
                    ELSE mark_completed(tasks, i)
        /\ last' = Call("mark_completed", i, None, None, None, tasks,
                        IndexError(tasks, i), << >>)
    /\ UNCHANGED appVars

TodoList_mark_incomplete ==
    /\ \E i \in Indices :
        /\ tasks' = IF IndexError(tasks, i) THEN tasks
                    ELSE mark_incomplete(tasks, i)
        /\ last' = Call("mark_incomplete", i, None, None, None, tasks,
                        IndexError(tasks, i), << >>)
    /\ UNCHANGED appVars

TodoList_show_tasks ==
    /\ tasks' = tasks
    /\ last' = Call("show_tasks", 0, None, None, None, tasks, FALSE,
                    show_tasks(tasks))
    /\ UNCHANGED appVars

Next ==
    \/ TodoList_add_task
    \/ TodoList_remove_task
    \/ TodoList_edit_task
    \/ TodoList_mark_completed
    \/ TodoList_mark_incomplete
    \/ TodoList_show_tasks

Spec == Init /\ [][Next]_vars

(***************************************************************************)
(* TodoApp: the widgets' state, the user's gestures and the button handlers *)
(***************************************************************************)
\* texts the user types into the three Entry widgets
TitleTexts == {"", "A", "Buy milk"}

DueDateTexts == {"", "X"}

PriorityTexts == {"", "Low"}

\* the warnings, named after the messagebox each handler shows
InputWarning == "add_task: input error"

RemoveWarning == "remove_task: selection error"

CompleteWarning == "mark_completed: selection error"

InputMissing_all(title, due_date, priority) ==
    title = "" /\ due_date = "" /\ priority = ""

\* the validation of add_task: any of the three values is empty
InputMissing(title, due_date, priority) ==
    title = "" \/ due_date = "" \/ priority = ""

selection_kept(sel) == sel

\* task_listbox.delete(0, tk.END) leaves no row selected
selection_after_delete(sel) == SubSeq(sel, 1, 0)

update_task_listbox_keeping(rows, ts) ==
    rows \o [j \in 1 .. Len(ts) |-> Task_str(ts[j])]

\* update_task_listbox: the rows are deleted, then one row per task is
\* inserted at the end, the task rendered by its __str__
update_task_listbox(rows, ts) ==
    SubSeq(rows, 1, 0) \o [j \in 1 .. Len(ts) |-> Task_str(ts[j])]

Event(name, warning) ==
    [name |-> name, warning |-> warning, tasks |-> tasks,
     listbox |-> task_listbox,
     entries |-> <<title_entry, due_date_entry, priority_entry>>,
     selection |-> curselection]

\* the user edits the Entry widgets
User_type ==
    /\ \E title \in TitleTexts, due_date \in DueDateTexts,
          priority \in PriorityTexts :
        /\ <<title, due_date, priority>> #
               <<title_entry, due_date_entry, priority_entry>>
        /\ title_entry' = title
        /\ due_date_entry' = due_date
        /\ priority_entry' = priority
    /\ event' = [NoEvent EXCEPT !.name = "type"]
    /\ last' = NoCall
    /\ UNCHANGED <<tasks, task_listbox, curselection>>

\* the user clicks a row of the Listbox
User_select ==
    /\ \E k \in 0 .. (Len(task_listbox) - 1) : curselection' = <<k>>
    /\ event' = [NoEvent EXCEPT !.name = "select"]
    /\ last' = NoCall
    /\ UNCHANGED <<tasks, title_entry, due_date_entry, priority_entry,
                   task_listbox>>

TodoApp_add_task ==
    LET title == title_entry
        due_date == due_date_entry
        priority == priority_entry
    IN  /\ InputMissing(title, due_date, priority) \/ Len(tasks) < MaxTasks
        /\ IF InputMissing(title, due_date, priority)
           THEN /\ event' = Event("add_task", InputWarning)
                /\ last' = NoCall
                /\ UNCHANGED <<tasks, title_entry, due_date_entry,
                               priority_entry, task_listbox, curselection>>
           ELSE /\ tasks' = add_task(tasks, title, due_date, priority)
                /\ last' = Call("add_task", 0, Some(title), Some(due_date),
                                Some(priority), tasks, FALSE, << >>)
                /\ task_listbox' = update_task_listbox(task_listbox, tasks')
                /\ curselection' = selection_after_delete(curselection)
                /\ title_entry' = ""
                /\ due_date_entry' = ""
                /\ priority_entry' = ""
                /\ event' = Event("add_task", "")

TodoApp_remove_task ==
    IF curselection = << >>
    THEN /\ event' = Event("remove_task", RemoveWarning)
         /\ last' = NoCall
         /\ UNCHANGED <<tasks, title_entry, due_date_entry, priority_entry,
                        task_listbox, curselection>>
    ELSE LET selected_task_index == curselection[1]
         IN  /\ tasks' = remove_task(tasks, selected_task_index)
             /\ last' = Call("remove_task", selected_task_index, None, None,
                             None, tasks, FALSE, << >>)
             /\ task_listbox' = update_task_listbox(task_listbox, tasks')
             /\ curselection' = selection_after_delete(curselection)
             /\ event' = Event("remove_task", "")
             /\ UNCHANGED <<title_entry, due_date_entry, priority_entry>>

TodoApp_mark_completed ==
    IF curselection = << >>
    THEN /\ event' = Event("mark_completed", CompleteWarning)
         /\ last' = NoCall
         /\ UNCHANGED <<tasks, title_entry, due_date_entry, priority_entry,
                        task_listbox, curselection>>
    ELSE LET selected_task_index == curselection[1]
         IN  IF IndexError(tasks, selected_task_index)
             THEN \* the IndexError of TodoList.mark_completed is caught too
                  /\ event' = Event("mark_completed", CompleteWarning)
                  /\ last' = Call("mark_completed", selected_task_index, None,
                                  None, None, tasks, TRUE, << >>)
                  /\ UNCHANGED <<tasks, title_entry, due_date_entry,
                                 priority_entry, task_listbox, curselection>>
             ELSE /\ tasks' = mark_completed(tasks, selected_task_index)
                  /\ last' = Call("mark_completed", selected_task_index, None,
                                  None, None, tasks, FALSE, << >>)
                  /\ task_listbox' =
                        update_task_listbox(task_listbox, tasks')
                  /\ curselection' = selection_after_delete(curselection)
                  /\ event' = Event("mark_completed", "")
                  /\ UNCHANGED <<title_entry, due_date_entry, priority_entry>>

NextApp ==
    \/ User_type
    \/ User_select
    \/ TodoApp_add_task
    \/ TodoApp_remove_task
    \/ TodoApp_mark_completed

SpecApp == Init /\ [][NextApp]_vars

(***************************************************************************)
(* Properties of the TodoList methods                                      *)
(***************************************************************************)
n == Len(last.pre)

ValidIndex == 0 <= last.index /\ last.index < n

\* the rendering of a task, written out from its four fields
Rendering(task) ==
    task.title \o " - " \o task.due_date \o " - " \o task.priority \o " - "
        \o (CASE task.is_completed = TRUE -> "Completed"
              [] task.is_completed = FALSE -> "Not Completed")

\* C1: add_task never raises and yields a list one longer whose last element
\* has exactly the given title, due_date and priority and is not completed;
\* the tasks at positions 0..n-1 are the same tasks in the same order.
C1_AddAppends ==
    last.op = "add_task" =>
        /\ ~last.raised
        /\ Len(tasks) = n + 1
        /\ tasks[n + 1].title = last.title[1]
        /\ tasks[n + 1].due_date = last.due_date[1]
        /\ tasks[n + 1].priority = last.priority[1]
        /\ tasks[n + 1].is_completed = FALSE
        /\ \A j \in 1 .. n : tasks[j] = last.pre[j]

C1_Witness ==
    /\ last.op = "add_task"
    /\ n >= 1
    /\ last.pre[1].is_completed
    /\ tasks[n + 1].title # last.pre[1].title

\* C2: remove_task(i) with 0 <= i < n yields a list of length n-1; the tasks
\* at positions below i stay where they were and each task from a position
\* j > i is at position j-1 with all its fields unchanged.
C2_RemoveShifts ==
    (last.op = "remove_task" /\ ValidIndex) =>
        /\ ~last.raised
        /\ Len(tasks) = n - 1
        /\ \A j \in 0 .. (n - 1) :
              /\ j < last.index => tasks[j + 1] = last.pre[j + 1]
              /\ j > last.index => tasks[j] = last.pre[j + 1]

\* add A, add B, remove(0) leaves exactly [B] at position 0
C2_Witness ==
    /\ last.op = "remove_task"
    /\ last.index = 0
    /\ n = 2
    /\ last.pre[1] # last.pre[2]
    /\ tasks = <<last.pre[2]>>

\* C3: remove_task(i) with i < 0 or i >= n raises nothing and leaves the list
\* as it was; so does every repetition of the call.
C3_RemoveIgnoresInvalid ==
    (last.op = "remove_task" /\ (last.index < 0 \/ last.index >= n)) =>
        /\ ~last.raised
        /\ tasks = last.pre
        /\ remove_task(tasks, last.index) = tasks

C3_Witness ==
    /\ last.op = "remove_task"
    /\ last.index = 0 - 1
    /\ n = 2
    /\ tasks = last.pre

IndexedOps == {"edit_task", "mark_completed", "mark_incomplete"}

Provided(arg) == arg # None /\ arg # Some("")

\* C5: edit_task(i, ...) with 0 <= i < n overwrites on task i exactly the
\* fields whose argument is provided and non-empty, leaves the other fields,
\* is_completed, every other task, the length and the order as they were,
\* and never sets a field to the empty string.
C5_EditFrame ==
    (last.op = "edit_task" /\ ValidIndex) =>
        LET old == last.pre[last.index + 1]
            new == tasks[last.index + 1]
        IN  /\ ~last.raised
            /\ Len(tasks) = n
            /\ \A j \in 1 .. n : j # last.index + 1 => tasks[j] = last.pre[j]
            /\ new.title =
                  IF Provided(last.title) THEN last.title[1] ELSE old.title
            /\ new.due_date =
                  IF Provided(last.due_date) THEN last.due_date[1]
                  ELSE old.due_date
            /\ new.priority =
                  IF Provided(last.priority) THEN last.priority[1]
                  ELSE old.priority
            /\ new.is_completed = old.is_completed
            /\ new.title = "" => old.title = ""
            /\ new.due_date = "" => old.due_date = ""
            /\ new.priority = "" => old.priority = ""

\* edit(i, title="", due_date="X", priority="") on a completed task
C5_Witness ==
    /\ last.op = "edit_task"
    /\ ValidIndex
    /\ n = 2
    /\ last.title = Some("")
    /\ last.due_date = Some("X")
    /\ last.priority = Some("")
    /\ last.pre[last.index + 1].due_date # "X"
    /\ last.pre[last.index + 1].is_completed
    /\ tasks[last.index + 1].due_date = "X"

MarkEffect(flag) ==
    /\ ~last.raised
    /\ Len(tasks) = n
    /\ \A j \in 1 .. n :
          tasks[j] = IF j = last.index + 1
                     THEN [last.pre[j] EXCEPT !.is_completed = flag]
                     ELSE last.pre[j]

\* a mark_incomplete(i) step taken right after mark_completed(i) found the
\* flag of task i false
RoundTrip ==
    (/\ last.op = "mark_completed" /\ ValidIndex
     /\ last.pre[last.index + 1].is_completed = FALSE
     /\ last'.op = "mark_incomplete" /\ last'.index = last.index)
        => tasks' = last.pre

\* C6: for 0 <= i < n, mark_completed(i) sets is_completed of task i to true
\* and mark_incomplete(i) sets it to false whatever the flag was, changing no
\* other field, task, the length or the order; mark_completed(i) followed by
\* mark_incomplete(i) on a task whose flag was false restores the list.
C6_MarkSetsFlag ==
    /\ []((last.op = "mark_completed" /\ ValidIndex) => MarkEffect(TRUE))
    /\ []((last.op = "mark_incomplete" /\ ValidIndex) => MarkEffect(FALSE))
    /\ [][RoundTrip]_vars

C6_Witness ==
    /\ last.op = "mark_incomplete"
    /\ ValidIndex
    /\ n = 2
    /\ last.pre[last.index + 1].is_completed
    /\ ~tasks[last.index + 1].is_completed
    /\ tasks[1].is_completed # tasks[2].is_completed

\* C7: the display string of a task is its title, due_date, priority and
\* status joined by " - ", the status being "Completed" when is_completed
\* and "Not Completed" otherwise; rendering the tasks changes none of them.
C7_DisplayString ==
    last.op = "show_tasks" =>
        /\ tasks = last.pre
        /\ Len(last.out) = n
        /\ \A k \in 1 .. n :
              /\ last.out[k] = ToString(k - 1) \o ". " \o Rendering(tasks[k])
              /\ tasks[k] = Task("Buy milk", "2024-01-01", "High") =>
                    last.out[k] = ToString(k - 1)
                        \o ". Buy milk - 2024-01-01 - High - Not Completed"

C7_Witness ==
    /\ last.op = "show_tasks"
    /\ n = 2
    /\ tasks[1] = Task("Buy milk", "2024-01-01", "High")
    /\ tasks[2].is_completed
    /\ last.out[1] = "0. Buy milk - 2024-01-01 - High - Not Completed"

(***************************************************************************)
(* Properties of the TodoApp handlers                                      *)
(***************************************************************************)
Handlers == {"add_task", "remove_task", "mark_completed"}

Entries == <<title_entry, due_date_entry, priority_entry>>

\* C8: an add request with any of the three values empty shows a warning,
\* leaves the task list unchanged and keeps the contents of the input
\* fields; a remove or mark-completed request with no row selected shows a
\* warning and leaves the task list and the visible list unchanged.
C8_WarningsChangeNothing ==
    /\ (event.name = "add_task" /\ \E k \in 1 .. 3 : event.entries[k] = "") =>
          /\ event.warning = InputWarning
          /\ tasks = event.tasks
          /\ Entries = event.entries
          /\ task_listbox = event.listbox
    /\ (event.name = "remove_task" /\ event.selection = << >>) =>
          /\ event.warning = RemoveWarning
          /\ tasks = event.tasks
          /\ task_listbox = event.listbox
    /\ (event.name = "mark_completed" /\ event.selection = << >>) =>
          /\ event.warning = CompleteWarning
          /\ tasks = event.tasks
          /\ task_listbox = event.listbox

C8_Witness ==
    /\ event.name = "add_task"
    /\ event.entries = <<"A", "", "Low">>
    /\ event.warning = InputWarning
    /\ Len(tasks) = 1
    /\ Entries = <<"A", "", "Low">>

\* C9: once a handler has returned, the visible list has as many rows as
\* the task list has tasks and row k is the rendering of the task at
\* position k.
C9_ListboxShowsTasks ==
    /\ Len(task_listbox) = Len(tasks)
    /\ \A k \in 1 .. Len(tasks) : task_listbox[k] = Rendering(tasks[k])

C9_Witness ==
    /\ event.name = "mark_completed"
    /\ event.warning = ""
    /\ Len(tasks) = 2
    /\ Len(event.listbox) = 2
    /\ task_listbox # event.listbox
    /\ tasks[1].title # tasks[2].title

\* C10: every index a handler passes to remove_task or mark_completed of the
\* TodoList is the selected row and satisfies 0 <= index < length, so
\* neither the IndexError of mark_completed nor the ignore branch of
\* remove_task is reached; rebuilding the visible list clears the selection.
C10_IndexFromSelection ==
    /\ last.op \in {"remove_task", "mark_completed"} =>
          /\ event.selection = <<last.index>>
          /\ 0 <= last.index /\ last.index < Len(last.pre)
          /\ ~last.raised
          /\ last.op = "remove_task" => Len(tasks) = Len(last.pre) - 1
    /\ (event.name \in Handlers /\ event.warning = "") => curselection = << >>
    /\ curselection # << >> =>
          0 <= curselection[1] /\ curselection[1] < Len(tasks)

C10_Witness ==
    /\ last.op = "mark_completed"
    /\ event.name = "mark_completed"
    /\ Len(last.pre) = 2
    /\ last.index = 1
    /\ event.selection = <<1>>
    /\ tasks[2].is_completed

====
